---- MODULE Spec2Model ----
(***************************************************************************)
(* A model of syft-job.                                                    *)
(*                                                                         *)
(* Part A, the approval workflow (client.py): the participant's stage      *)
(* directories inbox/approved/done on the filesystem, JobClient operations *)
(* submit_bash_job and _get_current_user_jobs, and                          *)
(* JobInfo.accept_by_depositing_result, each split at its filesystem calls *)
(* so that several clients interleave.                                     *)
(*                                                                         *)
(* Part B, the execution engine (runner.py): JobRunner's registry `jobs`,  *)
(* the table `_running_processes`, the threads executing _run_job_sync and *)
(* cancel_job.                                                             *)
(***************************************************************************)
EXTENDS Integers, Sequences, FiniteSets, TLC

(***************************************************************************)
(* Bounds and input domains                                                *)
(***************************************************************************)
\* total number of client operations started in one behaviour
MaxOps == 6

\* threads of control, each using a JobClient configured with the
\* participant's e-mail (config.email) and holding one JobsList
Clients == {"c1", "c2"}

\* job names passed to submit_bash_job
Jobs == {"j1"}

\* script texts passed to submit_bash_job
Scripts == {"s1", "s2"}

\* file_path arguments of accept_by_depositing_result: two regular files with
\* the same base name and different content, a directory, a path that does
\* not exist
Results == {"r1", "r2", "rdir", "missing"}

\* a test that finds every path
ResultExistsAlways(r) == TRUE

\* Path(file_path).exists()
ResultExists(r) == r # "missing"

\* Path(file_path) is a regular file (shutil.copy2 raises IsADirectoryError
\* on a directory)
ResultIsFile(r) == r \in {"r1", "r2"}

(***************************************************************************)
(* Part A state                                                            *)
(***************************************************************************)
VARIABLES
    dirs,      \* which of the directories user / job / inbox / approved / done exist
    fs,        \* fs[slot][name]: the job directory at <slot>/<name>
    nextId,    \* identity (inode) given to the next directory created
    pc,        \* pc[c]: position of client c inside its current operation
    arg,       \* arg[c]: arguments and locals of the current operation
    acc,       \* acc[c]: the list `jobs` being built by _get_current_user_jobs
    listing,   \* listing[c]: the JobInfo objects of the JobsList c holds
    ret,       \* ret[c]: outcome of the operation c completed last
    ops        \* number of operations started

varsA == <<dirs, fs, nextId, pc, arg, acc, listing, ret, ops>>

(***************************************************************************)
(* Part B state                                                            *)
(***************************************************************************)
VARIABLES
    cleanup,   \* JobRunner.cleanup, set by the constructor
    now,       \* the last reading of datetime.now()
    jobs,      \* self.jobs: job_id -> JobResult
    running,   \* self._running_processes: job_id -> Popen (0: no entry)
    proc,      \* the child processes: state and return code
    ws,        \* ws[id]: the workspace directory job_dir/<id> exists
    outs,      \* outs[id]: the regular files under job_dir/<id>/outputs
    desc,      \* desc[p]: the process the child p started in the background
    tpc,       \* tpc[t]: position of thread t
    targ,      \* targ[t]: job id and Popen object of the call thread t is in
    result,    \* result[t]: the local JobResult of _run_job_sync in thread t
    tret,      \* tret[t]: what the call thread t completed last returned
    runs       \* number of executions started

varsB == <<cleanup, jobs, running, proc, ws, outs, desc, tpc, targ, result, tret, runs, now>>

(***************************************************************************)
(* State of one _prepare_job_environment call (runner.py, lines 116-135)   *)
(***************************************************************************)
VARIABLES
    envIn,           \* job.config.inputs, in the order of the dict
    envK,            \* number of inputs the loop of line 121 has handled
    input_env_vars,  \* the dict built by the loop
    job_env_vars,    \* the dict of lines 131-135; empty before line 131
    env_vars,        \* job.config.env_vars
    config_data,     \* what config.yaml of the workspace holds
    env              \* the environment handed to Popen; empty before line 261

varsD == <<envIn, envK, input_env_vars, job_env_vars, env_vars, config_data, env>>

(***************************************************************************)
(* State of one run_batch call (runner.py, lines 345-351)                  *)
(***************************************************************************)
VARIABLES
    batch,     \* the job_id of each job of the list handed to run_batch
    bres,      \* bres[t]: outcome of the future whose function runs on thread t
    bret       \* what run_batch returned or raised

varsC == <<batch, bres, bret>>

(***************************************************************************)
(* State of one submit_job call (submission.py, lines 169-178)             *)
(***************************************************************************)
VARIABLES
    sync,      \* the argument sync of submit_job
    sret       \* what submit_job returned to its caller; "none" before

varsE == <<sync, sret>>

(***************************************************************************)
(* State of one _process_custom_run_script call (runner.py, lines 172-204) *)
(***************************************************************************)
VARIABLES
    run_script,      \* job.config.run_script, as its sequence of characters
    cwdFiles,        \* the regular files under the runner's working directory
    codeFiles,       \* the regular files under the directory job.config.code
    absFiles,        \* the regular files named by absolute paths
    codeDir,         \* job.config.code is set and names an existing directory
    script_content   \* the local script_content: where the script text comes from

varsF == <<run_script, cwdFiles, codeFiles, absFiles, codeDir, script_content>>

(***************************************************************************)
(* State of self.executor (runner.py, lines 34 and 331-336)                *)
(***************************************************************************)
VARIABLES
    max_workers,     \* JobRunner.max_workers
    taken,           \* number of submitted functions the pool threads have taken
    ttask,           \* ttask[t]: position in the batch of the job thread t runs; 0: none
    fut              \* fut[k]: the future of the k-th job: "none", a status, "raised"

varsG == <<max_workers, taken, ttask, fut>>

(***************************************************************************)
(* State of a SyftJobRunner, the scanner of inbox (job_runner.py), and of  *)
(* the inbox directory it reads                                            *)
(***************************************************************************)
VARIABLES
    inbox_dir,   \* the directories in inbox, each a name and an identity (inode)
    nextDir,     \* identity given to the next directory created in inbox
    known_jobs,  \* SyftJobRunner.known_jobs
    reported,    \* what _print_new_job printed: per scan that found new jobs, the directories it announced
    spc,         \* "made": constructed, run() not active; "loop": in the loop of run()
    existing,    \* the directories run() found at line 113, printed as existing jobs
    last_scan    \* the directories the latest _get_jobs_in_inbox call returned

varsH == <<inbox_dir, nextDir, known_jobs, reported, spc, existing, last_scan>>

(***************************************************************************)
(* State of a JobsList (client.py, lines 74-148)                           *)
(***************************************************************************)
VARIABLES
    self_jobs,   \* JobsList._jobs
    table,       \* the job rows of the text __str__ returned; <<>> before
    index,       \* the argument of the latest __getitem__ call; -1 before
    got          \* what that call returned

varsI == <<self_jobs, table, index, got>>

\* a scan that visits the stage directories in the opposite order
StageNamesReversed == <<"done", "approved", "inbox">>

\* the stage directories in the order _get_current_user_jobs scans them
StageNames == <<"inbox", "approved", "done">>

\* <stage>/<name> for the three stages, and done/<name>/<name>, where
\* shutil.move puts a directory whose destination already exists
Slots == {"inbox", "approved", "done", "nested"}

\* no directory at a path
NoEntry == [id |-> 0, script |-> "none", config |-> "none", outputs |-> "nodir"]

\* the directory job_dir.mkdir creates
NewEntry(id) == [id |-> id, script |-> "none", config |-> "none", outputs |-> "nodir"]

Present(slot, j) == fs[slot][j].id # 0

NoArg == [op |-> "none", name |-> "none", script |-> "none", idx |-> 0, res |-> "none", present |-> {}]

NoRet == [op |-> "none", name |-> "none", out |-> "none", line |-> 0]

\* JobInfo(name, user, status, submitted_by, location, config)
JobInfo(name, status) == [name |-> name, status |-> status, loc |-> status]

InitA ==
    /\ dirs \in {{}, {"user"}}
    /\ fs = [s \in Slots |-> [j \in Jobs |-> NoEntry]]
    /\ nextId = 1
    /\ pc = [c \in Clients |-> "idle"]
    /\ arg = [c \in Clients |-> NoArg]
    /\ acc = [c \in Clients |-> << >>]
    /\ listing = [c \in Clients |-> << >>]
    /\ ret = [c \in Clients |-> NoRet]
    /\ ops = 0

\* an operation returns or raises at a source line: record the outcome, go
\* back to idle
Finish(c, op, name, out, line) ==
    /\ pc' = [pc EXCEPT ![c] = "idle"]
    /\ ret' = [ret EXCEPT ![c] = [op |-> op, name |-> name, out |-> out, line |-> line]]

(***************************************************************************)
(* JobClient.submit_bash_job(user, job_name, script)                       *)
(***************************************************************************)
\* _ensure_job_directories: mkdir(parents=True, exist_ok=True) of the job
\* directory and the three stage directories
EnsureJobDirectories == dirs \cup {"job", "inbox", "approved", "done"}

\* lines 818-825: the directories in the order of the loop
EnsureOrder == <<"job", "inbox", "approved", "done">>

\* lines 843-849, the directory creation of a submission taken one mkdir at
\* a time: the user directory test, then the call of _ensure_job_directories
EnsureBegin(c) ==
    /\ pc[c] = "idle"
    /\ ops < MaxOps
    /\ ops' = ops + 1
    /\ arg' = [arg EXCEPT ![c] = [NoArg EXCEPT !.op = "ensure", !.idx = 1]]
    /\ IF "user" \notin dirs
       THEN Finish(c, "ensure", "none", "ValueError", 846)
       ELSE /\ pc' = [pc EXCEPT ![c] = "e_mkdir"]
            /\ ret' = [ret EXCEPT ![c] = NoRet]
    /\ UNCHANGED <<dirs, fs, nextId, acc, listing, varsB, varsC, varsD, varsE, varsF, varsG, varsH, varsI>>

\* lines 824-825: one directory.mkdir(parents=True, exist_ok=True) of the
\* loop; an existing directory is left as it is
EnsureStep(c) ==
    /\ pc[c] = "e_mkdir"
    /\ dirs' = dirs \cup {"job", EnsureOrder[arg[c].idx]}
    /\ IF arg[c].idx < Len(EnsureOrder)
       THEN /\ arg' = [arg EXCEPT ![c].idx = @ + 1]
            /\ UNCHANGED <<pc, ret>>
       ELSE /\ arg' = arg
            /\ Finish(c, "ensure", "none", "ok", 825)
    /\ UNCHANGED <<fs, nextId, acc, listing, ops, varsB, varsC, varsD, varsE, varsF, varsG, varsH, varsI>>

\* job_dir.exists() for job_dir = inbox/<job_name>
JobDirExists(j) == Present("inbox", j)

\* lines 843-855: the user directory check, the directory structure and the
\* exists() test on the job directory
SubmitBegin(c) ==
    /\ pc[c] = "idle"
    /\ ops < MaxOps
    /\ ops' = ops + 1
    /\ \E j \in Jobs, s \in Scripts :
        /\ arg' = [arg EXCEPT ![c] = [NoArg EXCEPT !.op = "submit", !.name = j, !.script = s]]
        /\ IF "user" \notin dirs
           THEN /\ Finish(c, "submit", j, "ValueError", 846)
                /\ dirs' = dirs
           ELSE /\ dirs' = EnsureJobDirectories
                /\ IF JobDirExists(j)
                   THEN Finish(c, "submit", j, "FileExistsError", 855)
                   ELSE /\ pc' = [pc EXCEPT ![c] = "s_mkdir"]
                        /\ ret' = [ret EXCEPT ![c] = NoRet]
    /\ UNCHANGED <<fs, nextId, acc, listing, varsB, varsC, varsD, varsE, varsF, varsG, varsH, varsI>>

\* mkdir with exist_ok=True: an existing directory is not an error
MkdirExistOk(j) == FALSE

\* job_dir.mkdir(parents=True) raises FileExistsError when the path exists
MkdirRaises(j) == Present("inbox", j)

\* line 857: job_dir.mkdir(parents=True)
SubmitMkdir(c) ==
    /\ pc[c] = "s_mkdir"
    /\ LET j == arg[c].name IN
        IF MkdirRaises(j)
        THEN /\ Finish(c, "submit", j, "FileExistsError", 857)
             /\ UNCHANGED <<fs, nextId>>
        ELSE /\ fs' = [fs EXCEPT !["inbox"][j] = NewEntry(nextId)]
             /\ nextId' = nextId + 1
             /\ pc' = [pc EXCEPT ![c] = "s_script"]
             /\ ret' = ret
    /\ UNCHANGED <<dirs, arg, acc, listing, ops, varsB, varsC, varsD, varsE, varsF, varsG, varsH, varsI>>

\* lines 860-865: open(job_dir / "run.sh", 'w'), write, chmod; the path is
\* resolved again, so the file lands in whatever directory is at inbox/<name>
SubmitWriteScript(c) ==
    /\ pc[c] = "s_script"
    /\ LET j == arg[c].name IN
        IF ~Present("inbox", j)
        THEN /\ Finish(c, "submit", j, "FileNotFoundError", 861)
             /\ fs' = fs
        ELSE /\ fs' = [fs EXCEPT !["inbox"][j].script = arg[c].script]
             /\ pc' = [pc EXCEPT ![c] = "s_config"]
             /\ ret' = ret
    /\ UNCHANGED <<dirs, nextId, arg, acc, listing, ops, varsB, varsC, varsD, varsE, varsF, varsG, varsH, varsI>>

\* lines 868-877: yaml.dump of {name, submitted_by} into config.yaml, return
SubmitWriteConfig(c) ==
    /\ pc[c] = "s_config"
    /\ LET j == arg[c].name IN
        IF ~Present("inbox", j)
        THEN /\ Finish(c, "submit", j, "FileNotFoundError", 874)
             /\ fs' = fs
        ELSE /\ fs' = [fs EXCEPT !["inbox"][j].config = j]
             /\ Finish(c, "submit", j, "ok", 877)
    /\ UNCHANGED <<dirs, nextId, arg, acc, listing, ops, varsB, varsC, varsD, varsE, varsF, varsG, varsH, varsI>>

(***************************************************************************)
(* JobClient._get_current_user_jobs / JobClient.jobs                       *)
(***************************************************************************)
\* the orders in which status_dir.iterdir() can yield the names in S
Orders(S) == {o \in [1..Cardinality(S) -> S] : \A a, b \in 1..Cardinality(S) : o[a] = o[b] => a = b}

\* a scan that takes no account of config.yaml
ListableWithoutConfig(stage) == {j \in Jobs : Present(stage, j)}

\* lines 895-918: the entries of one stage directory that become list items:
\* directories whose config.yaml exists and loads
Listable(stage) == {j \in Jobs : Present(stage, j) /\ fs[stage][j].config # "none"}

\* lines 908-915: name=job_config.get("name", ...), status=status_dir_name
ScanStage(stage, o) == [k \in 1..Len(o) |-> JobInfo(fs[stage][o[k]].config, stage)]

\* the job names a scan of the three stage directories finds
Scannable == {j \in Jobs : \E k \in 1..Len(StageNames) : StageNames[k] \in dirs /\ j \in Listable(StageNames[k])}

\* lines 881-886: jobs = [], and the early return when the job directory
\* does not exist
ListBegin(c) ==
    /\ pc[c] = "idle"
    /\ ops < MaxOps
    /\ ops' = ops + 1
    /\ arg' = [arg EXCEPT ![c] = [NoArg EXCEPT !.op = "list", !.idx = 1, !.present = Scannable]]
    /\ acc' = [acc EXCEPT ![c] = << >>]
    /\ IF "job" \notin dirs
       THEN /\ Finish(c, "list", "none", "ok", 886)
            /\ listing' = [listing EXCEPT ![c] = << >>]
       ELSE /\ pc' = [pc EXCEPT ![c] = "l_scan"]
            /\ ret' = [ret EXCEPT ![c] = NoRet]
            /\ listing' = listing
    /\ UNCHANGED <<dirs, fs, nextId, varsB, varsC, varsD, varsE, varsF, varsG, varsH, varsI>>

\* lines 889-920: one iteration of the loop over the stage directories; after
\* the last one the list is returned and wrapped in a JobsList (line 938)
ListScan(c) ==
    /\ pc[c] = "l_scan"
    /\ LET k == arg[c].idx
           stage == StageNames[k]
       IN \E o \in (IF stage \in dirs THEN Orders(Listable(stage)) ELSE {<< >>}) :
           LET found == acc[c] \o ScanStage(stage, o) IN
           IF k < Len(StageNames)
           THEN /\ acc' = [acc EXCEPT ![c] = found]
                /\ arg' = [arg EXCEPT ![c].idx = k + 1]
                /\ UNCHANGED <<pc, ret, listing>>
           ELSE /\ acc' = [acc EXCEPT ![c] = << >>]
                /\ arg' = arg
                /\ listing' = [listing EXCEPT ![c] = found]
                /\ Finish(c, "list", "none", "ok", 920)
    /\ UNCHANGED <<dirs, fs, nextId, ops, varsB, varsC, varsD, varsE, varsF, varsG, varsH, varsI>>

(***************************************************************************)
(* JobInfo.accept_by_depositing_result(file_path)                          *)
(***************************************************************************)
\* the JobInfo the running accept was called on
Handle(c) == listing[c][arg[c].idx]

\* accept without its state test
NotInInboxUnchecked(h) == FALSE

\* line 42: the state test of accept
NotInInbox(h) == h.status # "inbox"

\* lines 42-53: the status test, the result file test, and
\* done_dir.parent.mkdir(parents=True, exist_ok=True)
AcceptBegin(c) ==
    /\ pc[c] = "idle"
    /\ ops < MaxOps
    /\ ops' = ops + 1
    /\ \E i \in 1..Len(listing[c]), r \in Results :
        LET h == listing[c][i] IN
        /\ arg' = [arg EXCEPT ![c] = [NoArg EXCEPT !.op = "accept", !.name = h.name, !.idx = i, !.res = r]]
        /\ IF NotInInbox(h)
           THEN /\ Finish(c, "accept", h.name, "ValueError", 43)
                /\ dirs' = dirs
           ELSE IF ~ResultExists(r)
           THEN /\ Finish(c, "accept", h.name, "FileNotFoundError", 47)
                /\ dirs' = dirs
           ELSE /\ dirs' = dirs \cup {"user", "job", "done"}
                /\ pc' = [pc EXCEPT ![c] = "a_move"]
                /\ ret' = [ret EXCEPT ![c] = NoRet]
    /\ UNCHANGED <<fs, nextId, acc, listing, varsB, varsC, varsD, varsE, varsF, varsG, varsH, varsI>>

\* shutil.move(src, dst): when dst is an existing directory the real
\* destination is dst/basename(src)
MoveDst(j) == IF Present("done", j) THEN "nested" ELSE "done"

\* a move that copies the directory and leaves the source in place
RenameKeepsSource(f, src, dst, j) == [f EXCEPT ![dst][j] = f[src][j]]

\* shutil.move: os.rename(src, real_dst), one atomic step on one filesystem
Rename(f, src, dst, j) == [f EXCEPT ![dst][j] = f[src][j], ![src][j] = NoEntry]

\* line 56: shutil.move(str(self.location), str(done_dir))
AcceptMove(c) ==
    /\ pc[c] = "a_move"
    /\ LET h == Handle(c)
           j == h.name
           dst == MoveDst(j)
       IN IF Present(dst, j)
          THEN \* shutil.Error: Destination path already exists
               /\ Finish(c, "accept", j, "ShutilError", 56)
               /\ fs' = fs
          ELSE IF ~Present(h.loc, j)
          THEN \* the source is gone: os.rename and the copy fallback both raise
               /\ Finish(c, "accept", j, "FileNotFoundError", 56)
               /\ fs' = fs
          ELSE /\ fs' = Rename(fs, h.loc, dst, j)
               /\ pc' = [pc EXCEPT ![c] = "a_outputs"]
               /\ ret' = ret
    /\ UNCHANGED <<dirs, nextId, arg, acc, listing, ops, varsB, varsC, varsD, varsE, varsF, varsG, varsH, varsI>>

\* lines 59-60: outputs_dir = done_dir / "outputs"; outputs_dir.mkdir(exist_ok=True)
AcceptOutputs(c) ==
    /\ pc[c] = "a_outputs"
    /\ LET j == Handle(c).name IN
        /\ fs' = [fs EXCEPT !["done"][j].outputs = IF @ = "nodir" THEN "empty" ELSE @]
        /\ pc' = [pc EXCEPT ![c] = "a_copy"]
    /\ UNCHANGED <<dirs, nextId, arg, acc, listing, ret, ops, varsB, varsC, varsD, varsE, varsF, varsG, varsH, varsI>>

\* lines 63-71: shutil.copy2 into outputs (replacing a file of the same
\* name), then the update of the JobInfo; copy2 raises on a directory
AcceptCopy(c) ==
    /\ pc[c] = "a_copy"
    /\ LET j == Handle(c).name
           r == arg[c].res
       IN IF ~ResultIsFile(r)
          THEN /\ Finish(c, "accept", j, "IsADirectoryError", 65)
               /\ UNCHANGED <<fs, listing>>
          ELSE /\ fs' = [fs EXCEPT !["done"][j].outputs = r]
               /\ listing' = [listing EXCEPT ![c][arg[c].idx] = [@ EXCEPT !.status = "done", !.loc = "done"]]
               /\ Finish(c, "accept", j, "ok", 71)
    /\ UNCHANGED <<dirs, nextId, arg, acc, ops, varsB, varsC, varsD, varsE, varsF, varsG, varsH, varsI>>

(***************************************************************************)
(* Part B: JobRunner (runner.py)                                           *)
(***************************************************************************)
\* number of _run_job_sync executions started in one behaviour
MaxRuns == 2

\* largest reading of the wall clock
MaxTime == 1

\* largest number of entries of job.config.inputs
MaxInputs == 2

\* threads calling run_job / run_job_async's executor function / cancel_job
Threads == {"t1", "t2"}

\* job.job_id values of the JobSubmission objects handed to the runner
JobIds == {"a", "b"}

\* JobStatus values that end a job
Terminal == {"completed", "failed", "cancelled"}

\* no entry in self.jobs
NoResult == [job_id |-> "none", status |-> "none", exit_code |-> "none", error |-> "none", ended |-> FALSE,
             start_time |-> 0, end_time |-> 0, duration |-> 0, artifacts |-> {}]

\* a Popen object whose child was waited for (returncode is set)
Reaped == [state |-> "reaped", code |-> 0, stderr |-> FALSE]

\* lines 246-251: JobResult(job_id, status=RUNNING, start_time, metadata)
FreshResult == [NoResult EXCEPT !.status = "running"]

\* a Popen object that was never created
NoProc == [state |-> "none", code |-> 0, stderr |-> FALSE]

\* the arguments and locals of a call: job.job_id, the Popen object, whether
\* the code directory resolves, the locals stderr and exit_code
NoTArg == [op |-> "none", id |-> "none", p |-> 0, codeOk |-> TRUE, stderr |-> FALSE,
           exit_code |-> 0]

InitB ==
    /\ cleanup \in BOOLEAN
    /\ jobs = [i \in JobIds |-> NoResult]
    /\ running = [i \in JobIds |-> 0]
    /\ proc = [p \in 1..MaxRuns |-> NoProc]
    /\ ws = [i \in JobIds |-> FALSE]
    /\ outs = [i \in JobIds |-> {}]
    /\ desc = [p \in 1..MaxRuns |-> "none"]
    /\ tpc = [t \in Threads |-> "idle"]
    /\ targ = [t \in Threads |-> NoTArg]
    /\ result = [t \in Threads |-> NoResult]
    /\ tret = [t \in Threads |-> "none"]
    /\ runs = 0
    /\ now = 0

\* the wall clock read by datetime.now() (lines 245 and 312) advances; it is
\* taken not to be set back while the runner runs
Tick ==
    /\ now < MaxTime
    /\ now' = now + 1
    /\ UNCHANGED <<cleanup, desc, outs, jobs, running, proc, ws, tpc, targ, result, tret, runs, varsA, varsC, varsD, varsE, varsF, varsG, varsH, varsI>>

\* the difference of the operands swapped
DurationSwapped(start, end) == start - end

\* line 313: (result.end_time - start_time).total_seconds()
Duration(start, end) == end - start

\* lines 244-251 (entered from run_job, line 343, or from the executor, line
\* 332): the local result starts as RUNNING
RunBegin(t) ==
    /\ tpc[t] = "idle"
    /\ runs < MaxRuns
    /\ runs' = runs + 1
    /\ \E i \in JobIds, ok \in BOOLEAN :
        /\ targ' = [targ EXCEPT ![t] = [NoTArg EXCEPT !.op = "run", !.id = i, !.codeOk = ok]]
        /\ result' = [result EXCEPT ![t] = [FreshResult EXCEPT !.job_id = i, !.start_time = now]]
    /\ tpc' = [tpc EXCEPT ![t] = "r_prepare"]
    /\ tret' = [tret EXCEPT ![t] = "none"]
    /\ UNCHANGED <<cleanup, desc, outs, now, jobs, running, proc, ws, varsA, varsC, varsD, varsE, varsF, varsG, varsH, varsI>>

\* a handler that drops the message of the exception
HandleExceptionNoMessage(r) == [r EXCEPT !.status = "failed", !.exit_code = -1]

\* lines 306-310: except Exception as e: FAILED, error = str(e), exit_code = -1
HandleException(r) == [r EXCEPT !.status = "failed", !.error = "exception", !.exit_code = -1]

\* line 255 with the handler of lines 306-310: _prepare_job_environment
\* creates the workspace (mkdir exist_ok=True) and raises when the resolved
\* code directory does not exist
RunPrepare(t) ==
    /\ tpc[t] = "r_prepare"
    /\ ws' = [ws EXCEPT ![targ[t].id] = TRUE]
    /\ IF targ[t].codeOk
       THEN /\ tpc' = [tpc EXCEPT ![t] = "r_spawn"]
            /\ result' = result
       ELSE /\ tpc' = [tpc EXCEPT ![t] = "r_finally"]
            /\ result' = [result EXCEPT ![t] = HandleException(@)]
    /\ UNCHANGED <<cleanup, desc, outs, now, jobs, running, proc, targ, tret, runs, varsA, varsC, varsD, varsE, varsF, varsG, varsH, varsI>>

\* lines 271-278: every Popen call starts a child process of its own, here
\* the first one not yet used
NewProc ==
    CHOOSE p \in 1..MaxRuns :
        proc[p].state = "none" /\ \A q \in 1..(p - 1) : proc[q].state # "none"

\* lines 271-280: subprocess.Popen and self._running_processes[job_id] = process;
\* Popen raises when its cwd, the workspace, is no longer there, and the
\* handler of lines 306-310 makes the result FAILED
RunSpawn(t) ==
    /\ tpc[t] = "r_spawn"
    /\ IF ws[targ[t].id]
       THEN /\ proc' = [proc EXCEPT ![NewProc] = [state |-> "running", code |-> 0, stderr |-> FALSE]]
            /\ running' = [running EXCEPT ![targ[t].id] = NewProc]
            /\ targ' = [targ EXCEPT ![t].p = NewProc]
            /\ tpc' = [tpc EXCEPT ![t] = "r_wait"]
            /\ result' = result
       ELSE /\ tpc' = [tpc EXCEPT ![t] = "r_finally"]
            /\ result' = [result EXCEPT ![t] = HandleException(@)]
            /\ UNCHANGED <<proc, running, targ>>
    /\ UNCHANGED <<cleanup, desc, outs, now, jobs, ws, tret, runs, varsA, varsC, varsD, varsE, varsF, varsG, varsH, varsI>>

\* the child process ends by itself with a return code, having written to
\* stderr or not
ChildExit(p) ==
    /\ proc[p].state = "running"
    /\ \E code \in {0, 1}, e \in BOOLEAN :
        proc' = [proc EXCEPT ![p] = [state |-> "exited", code |-> code, stderr |-> e]]
    /\ UNCHANGED <<cleanup, desc, outs, now, jobs, running, ws, tpc, targ, result, tret, runs, varsA, varsC, varsD, varsE, varsF, varsG, varsH, varsI>>

\* lines 291-293: the finally clause drops the table entry of this job id
DropRunning(i) == [running EXCEPT ![i] = 0]

\* lines 282-293, the child ended and no other process holds its pipes:
\* communicate returns stdout and stderr, exit_code = returncode
RunWaitExit(t) ==
    /\ tpc[t] = "r_wait"
    /\ proc[targ[t].p].state = "exited"
    /\ desc[targ[t].p] # "piped"
    /\ targ' = [targ EXCEPT ![t] =
            [@ EXCEPT !.stderr = proc[targ[t].p].stderr,
                      !.exit_code = proc[targ[t].p].code]]
    /\ proc' = [proc EXCEPT ![targ[t].p] = Reaped]
    /\ running' = DropRunning(targ[t].id)
    /\ tpc' = [tpc EXCEPT ![t] = "r_collect"]
    /\ UNCHANGED <<cleanup, desc, outs, now, jobs, ws, result, tret, runs, varsA, varsC, varsD, varsE, varsF, varsG, varsH, varsI>>

\* lines 285-293, the child still runs at the timeout: kill, communicate
\* returns what the child wrote (to stderr or not), FAILED, the time-out
\* message, exit_code = -1
RunWaitTimeout(t) ==
    /\ tpc[t] = "r_wait"
    /\ proc[targ[t].p].state = "running"
    /\ desc[targ[t].p] # "piped"
    /\ proc' = [proc EXCEPT ![targ[t].p] = Reaped]
    /\ result' = [result EXCEPT ![t] = [@ EXCEPT !.status = "failed", !.error = "timeout"]]
    /\ \E e \in BOOLEAN :
        targ' = [targ EXCEPT ![t] = [@ EXCEPT !.stderr = e, !.exit_code = -1]]
    /\ running' = DropRunning(targ[t].id)
    /\ tpc' = [tpc EXCEPT ![t] = "r_collect"]
    /\ UNCHANGED <<cleanup, desc, outs, now, jobs, ws, tret, runs, varsA, varsC, varsD, varsE, varsF, varsG, varsH, varsI>>

\* lines 271-278: the child is started without a session or process group of
\* its own; a process it starts in the background inherits the two pipes
\* ("piped") unless the script redirects its output ("detached")
ChildFork(p) ==
    /\ proc[p].state = "running"
    /\ desc[p] = "none"
    /\ \E d \in {"piped", "detached"} : desc' = [desc EXCEPT ![p] = d]
    /\ UNCHANGED <<cleanup, outs, now, jobs, running, proc, ws, tpc, targ, result, tret, runs, varsA, varsC, varsD, varsE, varsF, varsG, varsH, varsI>>

\* the background process ends by itself
DescendantExit(p) ==
    /\ desc[p] \in {"piped", "detached"}
    /\ desc' = [desc EXCEPT ![p] = "exited"]
    /\ UNCHANGED <<cleanup, outs, now, jobs, running, proc, ws, tpc, targ, result, tret, runs, varsA, varsC, varsD, varsE, varsF, varsG, varsH, varsI>>

\* lines 283-286, the pipes are still open at the timeout because a background
\* process holds them: process.kill() signals the child alone
RunTimeoutKill(t) ==
    /\ tpc[t] = "r_wait"
    /\ proc[targ[t].p].state \in {"running", "exited"}
    /\ desc[targ[t].p] = "piped"
    /\ proc' = IF proc[targ[t].p].state = "running"
               THEN [proc EXCEPT ![targ[t].p] = [state |-> "exited", code |-> -9, stderr |-> FALSE]]
               ELSE proc
    /\ tpc' = [tpc EXCEPT ![t] = "r_drain"]
    /\ UNCHANGED <<cleanup, desc, outs, now, jobs, running, ws, targ, result, tret, runs, varsA, varsC, varsD, varsE, varsF, varsG, varsH, varsI>>

\* lines 287-293: process.communicate() without a timeout returns once every
\* holder of the pipes has ended; FAILED, the time-out message, exit_code = -1
RunTimeoutDrain(t) ==
    /\ tpc[t] = "r_drain"
    /\ desc[targ[t].p] # "piped"
    /\ proc' = [proc EXCEPT ![targ[t].p] = Reaped]
    /\ result' = [result EXCEPT ![t] = [@ EXCEPT !.status = "failed", !.error = "timeout"]]
    /\ \E e \in BOOLEAN :
        targ' = [targ EXCEPT ![t] = [@ EXCEPT !.stderr = e, !.exit_code = -1]]
    /\ running' = DropRunning(targ[t].id)
    /\ tpc' = [tpc EXCEPT ![t] = "r_collect"]
    /\ UNCHANGED <<cleanup, desc, outs, now, jobs, ws, tret, runs, varsA, varsC, varsD, varsE, varsF, varsG, varsH, varsI>>

\* the names of the files a job script writes into its outputs directory
Files == {"out1", "out2"}

\* the child process p writes a file into the outputs directory of its
\* workspace (it runs with cwd = workspace, line 275)
ChildWrite(p) ==
    /\ proc[p].state = "running"
    /\ \E t \in Threads, f \in Files :
        /\ targ[t].op = "run" /\ targ[t].p = p
        /\ ws[targ[t].id]
        /\ f \notin outs[targ[t].id]
        /\ outs' = [outs EXCEPT ![targ[t].id] = @ \cup {f}]
    /\ UNCHANGED <<cleanup, desc, now, jobs, running, proc, ws, tpc, targ, result, tret, runs, varsA, varsC, varsD, varsE, varsF, varsG, varsH, varsI>>

\* lines 296-298: the regular files under outputs_dir, when it exists
Artifacts(i) == IF ws[i] THEN outs[i] ELSE {}

\* every exit code read as success
StatusOfAnyCode(exit_code) == "completed"

\* line 303: the status computed from the exit code
StatusOf(exit_code) == IF exit_code = 0 THEN "completed" ELSE "failed"

\* lines 295-304: artifacts, output, error = stderr or None, exit code, status
RunCollect(t) ==
    /\ tpc[t] = "r_collect"
    /\ result' = [result EXCEPT ![t] =
            [@ EXCEPT !.artifacts = Artifacts(targ[t].id),
                      !.error = IF targ[t].stderr THEN "stderr" ELSE "none",
                      !.exit_code = targ[t].exit_code,
                      !.status = StatusOf(targ[t].exit_code)]]
    /\ tpc' = [tpc EXCEPT ![t] = "r_finally"]
    /\ UNCHANGED <<cleanup, desc, outs, now, jobs, running, proc, ws, targ, tret, runs, varsA, varsC, varsD, varsE, varsF, varsG, varsH, varsI>>

\* lines 311-317 and 320-322: end_time, duration, and the test whether a
\* workspace is to be removed
RunFinally(t) ==
    /\ tpc[t] = "r_finally"
    /\ result' = [result EXCEPT ![t] =
            [@ EXCEPT !.ended = TRUE, !.end_time = now,
                      !.duration = Duration(result[t].start_time, now)]]
    /\ tpc' = [tpc EXCEPT ![t] = IF cleanup /\ ws[targ[t].id] THEN "r_rmtree" ELSE "r_record"]
    /\ UNCHANGED <<cleanup, desc, outs, now, jobs, running, proc, ws, targ, tret, runs, varsA, varsC, varsD, varsE, varsF, varsG, varsH, varsI>>

\* line 319: shutil.rmtree(workspace_path); it raises when another run of
\* the same job_id has removed the directory since the test of line 317,
\* and the exception leaves _run_job_sync before line 324
RunRmtreeStep(t) ==
    /\ tpc[t] = "r_rmtree"
    /\ IF ws[targ[t].id]
       THEN /\ ws' = [ws EXCEPT ![targ[t].id] = FALSE]
            /\ outs' = [outs EXCEPT ![targ[t].id] = {}]
            /\ tpc' = [tpc EXCEPT ![t] = "r_record"]
            /\ UNCHANGED <<targ, result, tret>>
       ELSE /\ tpc' = [tpc EXCEPT ![t] = "idle"]
            /\ tret' = [tret EXCEPT ![t] = "raised"]
            /\ targ' = [targ EXCEPT ![t] = NoTArg]
            /\ result' = [result EXCEPT ![t] = NoResult]
            /\ UNCHANGED <<ws, outs>>
    /\ UNCHANGED <<cleanup, desc, now, jobs, running, proc, runs, varsA, varsD, varsE, varsF>>

\* line 319 in a run started by run_job or run_job_async
RunRmtree(t) == RunRmtreeStep(t) /\ UNCHANGED <<varsC, varsG, varsH, varsI>>

\* line 324: self.jobs[job.job_id] = result
Record(reg, i, r) == [reg EXCEPT ![i] = r]

\* lines 324-325: the result is stored in the registry and returned
RunRecordStep(t) ==
    /\ tpc[t] = "r_record"
    /\ jobs' = Record(jobs, targ[t].id, result[t])
    /\ tpc' = [tpc EXCEPT ![t] = "idle"]
    /\ tret' = [tret EXCEPT ![t] = result[t].status]
    /\ targ' = [targ EXCEPT ![t] = NoTArg]
    /\ result' = [result EXCEPT ![t] = NoResult]
    /\ UNCHANGED <<cleanup, desc, outs, now, running, proc, ws, runs, varsA, varsD, varsE, varsF>>

\* lines 324-325 in a run started by run_job or run_job_async
RunRecord(t) == RunRecordStep(t) /\ UNCHANGED <<varsC, varsG, varsH, varsI>>

\* lines 367-368: self.jobs.get(job_id); NoResult stands for None
get_job_status(i) == jobs[i]

\* lines 354-356 and 365, cancel_job(i) called by thread t: the table
\* lookup, return False without an entry, process.terminate() on the entry
CancelCall(t, i) ==
    /\ tpc[t] = "idle"
    /\ IF running[i] = 0
       THEN /\ tret' = [tret EXCEPT ![t] = "false"]
            /\ UNCHANGED <<tpc, targ, proc>>
       ELSE /\ targ' = [targ EXCEPT ![t] = [NoTArg EXCEPT !.op = "cancel", !.id = i, !.p = running[i]]]
            /\ tpc' = [tpc EXCEPT ![t] = "c_wait"]
            /\ tret' = [tret EXCEPT ![t] = "none"]
            \* SIGTERM ends a running child, unless the child ignores it
            /\ \/ proc' = proc
               \/ /\ proc[running[i]].state = "running"
                  /\ proc' = [proc EXCEPT ![running[i]] = [state |-> "exited", code |-> -15, stderr |-> FALSE]]
    /\ UNCHANGED <<cleanup, desc, outs, now, jobs, running, ws, result, runs, varsA, varsC, varsD, varsE, varsF, varsG, varsH, varsI>>

\* lines 353-356: cancel_job called with some job id
CancelBegin(t) == \E i \in JobIds : CancelCall(t, i)

\* lines 357-360: process.wait(timeout=5), and process.kill() when it expires
CancelWait(t) ==
    /\ tpc[t] = "c_wait"
    /\ proc' = IF proc[targ[t].p].state = "running"
               THEN [proc EXCEPT ![targ[t].p] = [state |-> "exited", code |-> -9, stderr |-> FALSE]]
               ELSE proc
    /\ tpc' = [tpc EXCEPT ![t] = "c_mark"]
    /\ UNCHANGED <<cleanup, desc, outs, now, jobs, running, ws, targ, result, tret, runs, varsA, varsC, varsD, varsE, varsF, varsG, varsH, varsI>>

\* lines 362-363: a registry entry of this id, when there is one, becomes
\* CANCELLED
MarkCancelled(reg, i) == IF reg[i].status # "none" THEN [reg EXCEPT ![i].status = "cancelled"] ELSE reg

\* lines 362-364
CancelMark(t) ==
    /\ tpc[t] = "c_mark"
    /\ jobs' = MarkCancelled(jobs, targ[t].id)
    /\ tpc' = [tpc EXCEPT ![t] = "idle"]
    /\ tret' = [tret EXCEPT ![t] = "true"]
    /\ targ' = [targ EXCEPT ![t] = NoTArg]
    /\ UNCHANGED <<cleanup, desc, outs, now, running, proc, ws, result, runs, varsA, varsC, varsD, varsE, varsF, varsG, varsH, varsI>>

(***************************************************************************)
(* Part D: run_batch (runner.py, lines 327-351)                            *)
(***************************************************************************)
\* the threads of self.executor in the order in which they take the
\* submitted functions: the k-th job of the batch runs on Workers[k]
Workers == <<"t1", "t2">>

\* the lists of jobs handed to run_batch, as the list of their job_id
Batches == UNION { [1..n -> JobIds] : n \in 0..Len(Workers) }

\* a future that is not done
NoFuture == [job_id |-> "none", status |-> "none"]

\* a future that holds an exception
RaisedFuture == [job_id |-> "none", status |-> "raised"]

\* run_batch has not returned
NoReturn == [state |-> "none", results |-> <<>>]

\* no run_batch call is modelled
NoBatch ==
    /\ batch = <<>>
    /\ bres = [t \in Threads |-> NoFuture]
    /\ bret = NoReturn

\* lines 345-347: run_batch is called with some list of jobs
InitBatch ==
    /\ batch \in Batches
    /\ bres = [t \in Threads |-> NoFuture]
    /\ bret = NoReturn

\* the position in the batch of the job that runs on thread t
TaskOf(t) == CHOOSE k \in 1..Len(Workers) : Workers[k] = t

\* lines 331-336 and 244-251: the executor starts _run_job_sync(job) for
\* the job of thread t
BatchRunBegin(t) ==
    /\ TaskOf(t) <= Len(batch)
    /\ bres[t].status = "none"
    /\ RunBegin(t)
    /\ targ'[t].id = batch[TaskOf(t)]

\* line 319 in a run of the batch: an exception becomes the exception of
\* the future (lines 332-336)
BatchRunRmtree(t) ==
    /\ RunRmtreeStep(t)
    /\ bres' = IF tpc'[t] = "idle" THEN [bres EXCEPT ![t] = RaisedFuture] ELSE bres
    /\ UNCHANGED <<batch, bret, varsG, varsH, varsI>>

\* lines 324-325 and 332-337: the JobResult returned by _run_job_sync is
\* the result of the future
BatchRunRecord(t) ==
    /\ RunRecordStep(t)
    /\ bres' = [bres EXCEPT ![t] = [job_id |-> result[t].job_id, status |-> result[t].status]]
    /\ UNCHANGED <<batch, bret, varsG, varsH, varsI>>

\* line 347: asyncio.gather(*tasks) gives the results in the order of tasks
Gather(futs, n) == [k \in 1..n |-> futs[Workers[k]]]

\* lines 347-351: gather raises the first exception of a task, and returns
\* the list of results when all tasks are done
BatchReturn ==
    /\ bret = NoReturn
    /\ IF \E k \in 1..Len(batch) : bres[Workers[k]].status = "raised"
       THEN bret' = [state |-> "raised", results |-> <<>>]
       ELSE /\ \A k \in 1..Len(batch) : bres[Workers[k]].status # "none"
            /\ bret' = [state |-> "returned", results |-> Gather(bres, Len(batch))]
    /\ UNCHANGED <<batch, bres, varsA, varsB, varsD, varsE, varsF, varsG, varsH, varsI>>

(***************************************************************************)
(* Part G: the thread pool of run_batch (runner.py, lines 34, 331-351)     *)
(***************************************************************************)
\* no executor is modelled
NoPool ==
    /\ max_workers = Len(Workers)
    /\ taken = 0
    /\ ttask = [t \in Threads |-> 0]
    /\ fut = [k \in 1..Len(Workers) |-> "none"]

\* lines 25-34: ThreadPoolExecutor(max_workers=max_workers) for some
\* positive max_workers
InitPool ==
    /\ max_workers \in 1..Len(Workers)
    /\ taken = 0
    /\ ttask = [t \in Threads |-> 0]
    /\ fut = [k \in 1..Len(Workers) |-> "none"]

\* line 34: the executor has at most max_workers threads
PoolThreads == {Workers[k] : k \in 1..max_workers}

\* lines 331-336: a free thread of the executor takes the next submitted
\* function, _run_job_sync(job) of the next job of the batch
PoolTake(t) ==
    /\ t \in PoolThreads
    /\ tpc[t] = "idle"
    /\ ttask[t] = 0
    /\ taken < Len(batch)
    /\ taken' = taken + 1
    /\ ttask' = [ttask EXCEPT ![t] = taken + 1]
    /\ UNCHANGED <<max_workers, fut, varsA, varsB, varsC, varsD, varsE, varsF, varsH, varsI>>

\* lines 244-251 on a thread of the executor
PoolRunBegin(t) ==
    /\ ttask[t] # 0
    /\ RunBegin(t)
    /\ targ'[t].id = batch[ttask[t]]

\* line 319 on a thread of the executor: an exception becomes the exception
\* of the future
PoolRunRmtree(t) ==
    /\ RunRmtreeStep(t)
    /\ IF tpc'[t] = "idle"
       THEN /\ fut' = [fut EXCEPT ![ttask[t]] = "raised"]
            /\ ttask' = [ttask EXCEPT ![t] = 0]
       ELSE UNCHANGED <<fut, ttask>>
    /\ UNCHANGED <<max_workers, taken, varsC, varsH, varsI>>

\* lines 324-325 on a thread of the executor: the JobResult is the result of
\* the future, and the thread is free again
PoolRunRecord(t) ==
    /\ RunRecordStep(t)
    /\ fut' = [fut EXCEPT ![ttask[t]] = result[t].status]
    /\ ttask' = [ttask EXCEPT ![t] = 0]
    /\ UNCHANGED <<max_workers, taken, varsC, varsH, varsI>>

(***************************************************************************)
(* Part E: submit_job (submission.py, lines 169-178)                       *)
(***************************************************************************)
\* no submit_job call is modelled
NoSubmit == sync = TRUE /\ sret = "none"

\* submit_job is called with sync True or False
InitSubmit == sync \in BOOLEAN /\ sret = "none"

\* line 175: run_job runs _run_job_sync on the thread of the caller, "t1";
\* lines 178 and 331-336: run_job_async hands it to the executor, "t2"
SubmitThread == IF sync THEN "t1" ELSE "t2"

\* lines 175 and 343, or 178 and 332-335: the one run of the call starts
SubmitRunBegin(t) ==
    /\ t = SubmitThread
    /\ runs = 0
    /\ RunBegin(t)

\* line 175: run_job returns the JobResult; line 178: asyncio.run returns
\* when the coroutine run_job_async is complete, that is when the awaited
\* executor future has the JobResult (lines 332-337)
SubmitReturn ==
    /\ sret = "none"
    /\ runs > 0
    /\ tpc[SubmitThread] = "idle"
    /\ sret' = tret[SubmitThread]
    /\ UNCHANGED <<sync, varsA, varsB, varsC, varsD, varsF, varsG, varsH, varsI>>

(***************************************************************************)
(* Part C: the environment of a job (runner.py, lines 116-135)             *)
(***************************************************************************)
\* the letters of the variable names, lower case and upper case
LowerCase == <<"a", "c", "d", "e", "i", "o", "p", "r", "t", "u">>

UpperCase == <<"A", "C", "D", "E", "I", "O", "P", "R", "T", "U">>

\* str.upper on one character: a lower-case letter becomes its upper-case
\* letter, every other character stays
UpperChar(ch) ==
    IF \E k \in 1..Len(LowerCase) : LowerCase[k] = ch
    THEN UpperCase[CHOOSE k \in 1..Len(LowerCase) : LowerCase[k] = ch]
    ELSE ch

\* line 124: var_name.upper(), on a name given as its sequence of characters
Upper(name) == [k \in 1..Len(name) |-> UpperChar(name[k])]

\* lines 132-133: the keys the runner binds itself
CODE_DIR == <<"C", "O", "D", "E", "_", "D", "I", "R">>

OUTPUT_DIR == <<"O", "U", "T", "P", "U", "T", "_", "D", "I", "R">>

\* the variable names a job declares for its inputs
InputNames ==
    { <<"c", "o", "d", "e", "_", "d", "i", "r">>,
      CODE_DIR,
      <<"O", "u", "t", "p", "u", "t", "_", "D", "i", "r">>,
      <<"d", "a", "t", "a">>,
      <<"D", "a", "t", "a">> }

\* the locations a job declares: a syft:// URL or a local path
Urls == { [syft |-> TRUE, path |-> "data.csv"], [syft |-> FALSE, path |-> "local.csv"] }

\* lines 52-58: a syft:// URL resolves to a file of the target directory,
\* anything else is taken as a local path
ResolveSyftUrl(url, target_dir) ==
    IF url.syft THEN [dir |-> target_dir, name |-> url.path]
    ELSE [dir |-> "", name |-> url.path]

\* line 112: the resolved code directory
CodeDirPath == [dir |-> "job_dir", name |-> "code"]

\* line 128: the outputs directory of the workspace
OutputsDirPath == [dir |-> "workspace", name |-> "outputs"]

\* d[key] = value on a dict
DictSet(d, key, value) ==
    [k \in DOMAIN d \cup {key} |-> IF k = key THEN value ELSE d[k]]

\* {**base, **upd}: the entries of upd replace those of base
DictUpdate(base, upd) ==
    [k \in DOMAIN base \cup DOMAIN upd |-> IF k \in DOMAIN upd THEN upd[k] ELSE base[k]]

\* the empty dict
EmptyDict == <<>>

\* lines 132-133: the bindings CODE_DIR and OUTPUT_DIR
ReservedEnv == DictSet(DictSet(EmptyDict, CODE_DIR, CodeDirPath), OUTPUT_DIR, OutputsDirPath)

\* the dicts job.config.inputs of at most MaxInputs entries: the names of a
\* dict are distinct
InputDicts ==
    UNION { { d \in [1..n -> [name : InputNames, url : Urls]] :
                \A a, b \in 1..n : a # b => d[a].name # d[b].name } : n \in 0..MaxInputs }

\* the value of a variable the submitter sets in job.config.env_vars
UserValue == [dir |-> "", name |-> "user"]

\* the dicts a submitter passes as job.config.env_vars (models.py, line 27:
\* empty by default)
UserEnvs == { EmptyDict, DictSet(EmptyDict, <<"T", "O", "K", "E", "N">>, UserValue) }

\* os.environ of the runner process
OsEnviron == DictSet(EmptyDict, <<"P", "A", "T", "H">>, [dir |-> "", name |-> "bin"])

\* str(url) of a declared location, as line 144 stores it
Declared(url) ==
    IF url.syft THEN [dir |-> "syft://", name |-> url.path]
    ELSE [dir |-> "", name |-> url.path]

\* line 144: dict(job.config.inputs), the declared names and locations
DeclaredInputs(inputs) ==
    [n \in {inputs[k].name : k \in 1..Len(inputs)} |->
        Declared(inputs[CHOOSE k \in 1..Len(inputs) : inputs[k].name = n].url)]

\* no config.yaml has been written
NoConfig == [written |-> FALSE, inputs |-> EmptyDict, environment |-> EmptyDict]

\* no _prepare_job_environment call is modelled
NoPrepare ==
    /\ envIn = <<>>
    /\ envK = 0
    /\ input_env_vars = EmptyDict
    /\ job_env_vars = EmptyDict
    /\ env_vars = EmptyDict
    /\ config_data = NoConfig
    /\ env = EmptyDict

\* lines 116-119: the call starts with some declared inputs
InitPrepare ==
    /\ envIn \in InputDicts
    /\ envK = 0
    /\ input_env_vars = EmptyDict
    /\ job_env_vars = EmptyDict
    /\ env_vars \in UserEnvs
    /\ config_data = NoConfig
    /\ env = EmptyDict

\* line 131 has been executed
EnvBuilt == DOMAIN job_env_vars # {}

\* lines 121-124: one round of the loop over job.config.inputs
EnvResolveInput ==
    /\ ~EnvBuilt
    /\ envK < Len(envIn)
    /\ envK' = envK + 1
    /\ input_env_vars' = DictSet(input_env_vars, Upper(envIn[envK + 1].name),
                                 ResolveSyftUrl(envIn[envK + 1].url, "inputs"))
    /\ UNCHANGED <<envIn, job_env_vars, env_vars, config_data, env, varsA, varsB, varsC, varsE, varsF, varsG, varsH, varsI>>

\* lines 131-135: job_env_vars = {"CODE_DIR": ..., "OUTPUT_DIR": ..., **input_env_vars}
EnvBuild ==
    /\ ~EnvBuilt
    /\ envK = Len(envIn)
    /\ job_env_vars' = DictUpdate(ReservedEnv, input_env_vars)
    /\ UNCHANGED <<envIn, envK, input_env_vars, env_vars, config_data, env, varsA, varsB, varsC, varsE, varsF, varsG, varsH, varsI>>

\* lines 138-160: config.yaml is written with the declared inputs and
\* job_env_vars, then job.config.env_vars.update(job_env_vars)
EnvWriteConfig ==
    /\ EnvBuilt
    /\ ~config_data.written
    /\ config_data' = [written |-> TRUE, inputs |-> DeclaredInputs(envIn),
                       environment |-> job_env_vars]
    /\ env_vars' = DictUpdate(env_vars, job_env_vars)
    /\ UNCHANGED <<envIn, envK, input_env_vars, job_env_vars, env, varsA, varsB, varsC, varsE, varsF, varsG, varsH, varsI>>

\* line 261 has been executed
EnvCopied == DOMAIN env # {}

\* lines 261-262: env = os.environ.copy(); env.update(job.config.env_vars)
EnvChild ==
    /\ config_data.written
    /\ ~EnvCopied
    /\ env' = DictUpdate(OsEnviron, env_vars)
    /\ UNCHANGED <<envIn, envK, input_env_vars, job_env_vars, env_vars, config_data, varsA, varsB, varsC, varsE, varsF, varsG, varsH, varsI>>

(***************************************************************************)
(* Part F: the script of a job (runner.py, lines 172-204)                  *)
(***************************************************************************)
\* line 179: str.startswith(prefix)
StartsWith(str, prefix) ==
    Len(str) >= Len(prefix) /\ SubSeq(str, 1, Len(prefix)) = prefix

\* line 179: the prefixes that mark inline content ("#!/bin/bash" starts
\* with "#!")
InlinePrefixes ==
    { <<"#", "!">>,
      <<"e", "c", "h", "o", " ">>,
      <<"p", "y", "t", "h", "o", "n", " ">>,
      <<"g", "o", " ">>,
      <<"c", "d", " ">> }

\* line 179: "\n" in run_script
HasNewline(str) == \E k \in 1..Len(str) : str[k] = "\n"

\* line 184: Path.is_absolute
IsAbsolute(str) == Len(str) > 0 /\ str[1] = "/"

\* the position of the last "/" of a path, 0 without one
LastSlash(str) ==
    IF \E k \in 1..Len(str) : str[k] = "/"
    THEN CHOOSE k \in 1..Len(str) :
            str[k] = "/" /\ \A j \in (k + 1)..Len(str) : str[j] # "/"
    ELSE 0

\* line 192: Path(run_script).name, the last component
PathName(str) == SubSeq(str, LastSlash(str) + 1, Len(str))

\* the values of run_script: a file name, a path with a directory, an
\* absolute path, a directory name, a file name that starts like a command,
\* two inline scripts and a name of nothing
RunScripts ==
    { <<"r">>,
      <<"s", "/", "r">>,
      <<"/", "r">>,
      <<"s">>,
      <<"g", "o", " ", "r">>,
      <<"e", "c", "h", "o", " ", "r">>,
      <<"r", "\n", "r">>,
      <<"x">> }

\* the regular files of a directory tree, as paths relative to its root
TreeFiles == { <<"r">>, <<"s", "/", "r">>, <<"g", "o", " ", "r">> }

\* the regular files with an absolute path
RootFiles == { <<"/", "r">> }

\* the files of the tree a path is looked up in
FilesOf(root) ==
    CASE root = "cwd" -> cwdFiles
      [] root = "code" -> codeFiles
      [] OTHER -> absFiles

\* Path.is_file
IsFile(path) == path.rel \in FilesOf(path.root)

\* Path.is_dir: a directory holds some file
IsDir(path) == \E f \in FilesOf(path.root) : StartsWith(f, path.rel \o <<"/">>)

\* Path.exists
PathExists(path) == IsFile(path) \/ IsDir(path)

\* line 183: Path(run_script); a relative path is looked up from the working
\* directory of the runner
AsGiven(str) == [root |-> IF IsAbsolute(str) THEN "abs" ELSE "cwd", rel |-> str]

\* lines 184-196: the path the script is read from
ScriptPath(str) ==
    IF /\ ~IsAbsolute(str)
       /\ ~PathExists(AsGiven(str))
       /\ codeDir
       /\ PathExists([root |-> "code", rel |-> PathName(str)])
    THEN [root |-> "code", rel |-> PathName(str)]
    ELSE AsGiven(str)

\* script_content is the declared text itself
Literal(str) == [from |-> "text", root |-> "none", rel |-> str]

\* script_content is the text of a file
FileText(path) == [from |-> "file", root |-> path.root, rel |-> path.rel]

\* read_text on a directory raises IsADirectoryError
ReadRaised(path) == [from |-> "raised", root |-> path.root, rel |-> path.rel]

\* lines 176-204, _process_custom_run_script up to the choice of the text
ProcessCustomRunScript(str) ==
    IF (\E pre \in InlinePrefixes : StartsWith(str, pre)) \/ HasNewline(str)
    THEN Literal(str)
    ELSE IF PathExists(ScriptPath(str))
         THEN IF IsFile(ScriptPath(str)) THEN FileText(ScriptPath(str))
              ELSE ReadRaised(ScriptPath(str))
         ELSE Literal(str)

\* line 177: script_content = None
NoContent == [from |-> "none", root |-> "none", rel |-> <<>>]

\* no _process_custom_run_script call is modelled
NoScript ==
    /\ run_script = <<>>
    /\ cwdFiles = {}
    /\ codeFiles = {}
    /\ absFiles = {}
    /\ codeDir = FALSE
    /\ script_content = NoContent

\* the call starts with some run_script and some files on the disk; without
\* a code directory there are no files in it
InitScript ==
    /\ run_script \in RunScripts
    /\ cwdFiles \in SUBSET TreeFiles
    /\ codeDir \in BOOLEAN
    /\ codeFiles \in SUBSET (TreeFiles \ {<<"g", "o", " ", "r">>})
    /\ (~codeDir => codeFiles = {})
    /\ absFiles \in SUBSET RootFiles
    /\ script_content = NoContent

\* lines 176-204
ScriptProcess ==
    /\ script_content = NoContent
    /\ run_script # <<>>
    /\ script_content' = ProcessCustomRunScript(run_script)
    /\ UNCHANGED <<run_script, cwdFiles, codeFiles, absFiles, codeDir, varsA, varsB, varsC, varsD, varsE, varsG, varsH, varsI>>

(***************************************************************************)
(* Part H: the inbox scanner (job_runner.py)                               *)
(***************************************************************************)
ScanNames == {"j1", "j2"}

\* directories created in inbox after the scanner was constructed
MaxDirs == 3

\* length of the record of announcements
MaxReports == 6

\* the directory of name n and identity i; identity 0: created before the
\* scanner was constructed
Dir(n, i) == [name |-> n, id |-> i]

\* no scanner is modelled
NoScan ==
    /\ inbox_dir = {}
    /\ nextDir = 1
    /\ known_jobs = {}
    /\ reported = <<>>
    /\ spc = "made"
    /\ existing = {}
    /\ last_scan = {}

\* lines 11-24: __init__ sets known_jobs to the empty set and reads nothing;
\* inbox may hold directories already
InitScan ==
    /\ inbox_dir \in {{Dir(n, 0) : n \in S} : S \in SUBSET ScanNames}
    /\ nextDir = 1
    /\ known_jobs = {}
    /\ reported = <<>>
    /\ spc = "made"
    /\ existing = {}
    /\ last_scan = {}

\* a submission creates the directory inbox/<n>
ScanDeposit(n) ==
    /\ nextDir <= MaxDirs
    /\ \A d \in inbox_dir : d.name # n
    /\ inbox_dir' = inbox_dir \cup {Dir(n, nextDir)}
    /\ nextDir' = nextDir + 1
    /\ UNCHANGED <<known_jobs, reported, spc, existing, last_scan, varsA, varsB, varsC, varsD, varsE, varsF, varsG, varsI>>

\* an accept moves the directory d out of inbox
ScanRemove(d) ==
    /\ d \in inbox_dir
    /\ inbox_dir' = inbox_dir \ {d}
    /\ UNCHANGED <<nextDir, known_jobs, reported, spc, existing, last_scan, varsA, varsB, varsC, varsD, varsE, varsF, varsG, varsI>>

\* lines 39-51: the names of the directories in inbox
JobsInInbox == {d.name : d \in inbox_dir}

\* the directories announced so far
Announced(r) == UNION {r[k] : k \in 1..Len(r)}

\* lines 100-119: run() up to the loop; line 113 takes the jobs in inbox as
\* known
ScanRun ==
    /\ spc = "made"
    /\ known_jobs' = JobsInInbox
    /\ existing' = inbox_dir
    /\ last_scan' = inbox_dir
    /\ spc' = "loop"
    /\ UNCHANGED <<inbox_dir, nextDir, reported, varsA, varsB, varsC, varsD, varsE, varsF, varsG, varsI>>

\* a check that keeps known_jobs as it was
CheckForNewJobsForgetful ==
    /\ Len(reported) < MaxReports
    /\ LET current_jobs == JobsInInbox
           new_jobs == current_jobs \ known_jobs
       IN  /\ reported' = IF new_jobs = {} THEN reported
                          ELSE Append(reported, {d \in inbox_dir : d.name \in new_jobs})
           /\ known_jobs' = known_jobs
    /\ last_scan' = inbox_dir
    /\ UNCHANGED <<inbox_dir, nextDir, spc, existing, varsA, varsB, varsC, varsD, varsE, varsF, varsG, varsI>>

\* lines 89-98: check_for_new_jobs
CheckForNewJobs ==
    /\ Len(reported) < MaxReports
    /\ LET current_jobs == JobsInInbox
           new_jobs == current_jobs \ known_jobs
       IN  /\ reported' = IF new_jobs = {} THEN reported
                          ELSE Append(reported, {d \in inbox_dir : d.name \in new_jobs})
           /\ known_jobs' = current_jobs
    /\ last_scan' = inbox_dir
    /\ UNCHANGED <<inbox_dir, nextDir, spc, existing, varsA, varsB, varsC, varsD, varsE, varsF, varsG, varsI>>

\* lines 121-123: one turn of the loop of run()
ScanLoopCheck == spc = "loop" /\ CheckForNewJobs

\* check_for_new_jobs called on a scanner whose run() is not active
ScanDirectCheck == spc = "made" /\ CheckForNewJobs

\* lines 124-125: KeyboardInterrupt ends run()
ScanStop ==
    /\ spc = "loop"
    /\ spc' = "made"
    /\ UNCHANGED <<inbox_dir, nextDir, known_jobs, reported, existing, last_scan, varsA, varsB, varsC, varsD, varsE, varsF, varsG, varsI>>

(***************************************************************************)
(* Part I: JobsList (client.py, lines 74-148)                              *)
(***************************************************************************)
NoJob == [name |-> "none", status |-> "none"]

\* no JobsList is modelled
NoTable ==
    /\ self_jobs = <<>>
    /\ table = <<>>
    /\ index = -1
    /\ got = NoJob

\* the job names of the listings, and str.lower() on them
TableNames == {"a", "B", "c"}

Lower(n) == IF n = "B" THEN "b" ELSE n

\* the lower-case names in the order of Python's string comparison
Alphabet == <<"a", "b", "c">>

Pos(n) == CHOOSE k \in 1..Len(Alphabet) : Alphabet[k] = n

\* line 123: status_priority
status_priority(st) ==
    CASE st = "inbox" -> 1
      [] st = "approved" -> 2
      [] st = "done" -> 3
      [] OTHER -> 4

\* lines 888-918: the lists _get_current_user_jobs returns when each name
\* is in at most one stage directory: the jobs of inbox, then those of
\* approved, then those of done, each stage in the order of iterdir
StageList(S, st) == {[k \in 1..Cardinality(S) |-> [name |-> o[k], status |-> st]] : o \in Orders(S)}

JobLists ==
    UNION {{a \o b \o c : a \in StageList({n \in TableNames : f[n] = "inbox"}, "inbox"),
                          b \in StageList({n \in TableNames : f[n] = "approved"}, "approved"),
                          c \in StageList({n \in TableNames : f[n] = "done"}, "done")} :
           f \in [TableNames -> {"none", "inbox", "approved", "done"}]}

\* line 124: the sort key (status_priority, name.lower()) of a is less than
\* that of b
KeyLess(a, b) ==
    \/ status_priority(a.status) < status_priority(b.status)
    \/ /\ status_priority(a.status) = status_priority(b.status)
       /\ Pos(Lower(a.name)) < Pos(Lower(b.name))

\* the place sorted() gives the i-th element of l; the sort is stable
SortedPlace(l, i) ==
    1 + Cardinality({k \in 1..Len(l) :
            \/ KeyLess(l[k], l[i])
            \/ ~KeyLess(l[i], l[k]) /\ k < i})

\* line 124: sorted(self._jobs, key=...)
Sorted(l) ==
    [r \in 1..Len(l) |-> l[CHOOSE i \in 1..Len(l) : SortedPlace(l, i) = r]]

\* lines 77-79: a JobsList made from a listing
InitTable ==
    /\ self_jobs \in JobLists
    /\ table = <<>>
    /\ index = -1
    /\ got = NoJob

\* lines 90-148: __str__; the rows of lines 127-131 show the place in
\* sorted_jobs, counted from 0, the name and the status
JobsListStr ==
    /\ self_jobs # <<>>
    /\ table = <<>>
    /\ LET sorted_jobs == Sorted(self_jobs)
       IN  table' = [r \in 1..Len(sorted_jobs) |->
                       [i |-> r - 1,
                        name |-> sorted_jobs[r].name,
                        status |-> sorted_jobs[r].status]]
    /\ UNCHANGED <<self_jobs, index, got, varsA, varsB, varsC, varsD, varsE, varsF, varsG, varsH>>

\* lines 81-82: __getitem__ with an index counted from 0
JobsListGetitem(i) ==
    /\ i \in 0..(Len(self_jobs) - 1)
    /\ index' = i
    /\ got' = self_jobs[i + 1]
    /\ UNCHANGED <<self_jobs, table, varsA, varsB, varsC, varsD, varsE, varsF, varsG, varsH>>

(***************************************************************************)
(* Specifications                                                          *)
(***************************************************************************)
vars == <<varsA, varsB, varsC, varsD, varsE, varsF, varsG, varsH, varsI>>

\* the clients' operations interleave at their filesystem calls
Next ==
    \E c \in Clients :
        \/ SubmitBegin(c)
        \/ SubmitMkdir(c)
        \/ SubmitWriteScript(c)
        \/ SubmitWriteConfig(c)
        \/ ListBegin(c)
        \/ ListScan(c)
        \/ AcceptBegin(c)
        \/ AcceptMove(c)
        \/ AcceptOutputs(c)
        \/ AcceptCopy(c)

\* the clients start on an empty job tree; the engine is not started
InitClients == InitA /\ InitB /\ cleanup = TRUE /\ NoPrepare /\ NoBatch /\ NoSubmit /\ NoScript /\ NoPool /\ NoScan /\ NoTable

\* the approval workflow with concurrent clients
Spec == InitClients /\ [][Next]_vars

NextEnsure ==
    \E c \in Clients :
        \/ EnsureBegin(c)
        \/ EnsureStep(c)
        \/ ListBegin(c)
        \/ ListScan(c)

\* clients creating the directory structure and listing, mkdir by mkdir
SpecEnsure == InitClients /\ [][NextEnsure]_vars

\* no other client is inside an operation
Quiet(c) == \A d \in Clients \ {c} : pc[d] = "idle"

SeqSubmitBegin(c) == Quiet(c) /\ SubmitBegin(c)

SeqListBegin(c) == Quiet(c) /\ ListBegin(c)

SeqAcceptBegin(c) == Quiet(c) /\ AcceptBegin(c)

\* one operation at a time: an operation starts only while no other runs
NextSeq ==
    \E c \in Clients :
        \/ SeqSubmitBegin(c)
        \/ SubmitMkdir(c)
        \/ SubmitWriteScript(c)
        \/ SubmitWriteConfig(c)
        \/ SeqListBegin(c)
        \/ ListScan(c)
        \/ SeqAcceptBegin(c)
        \/ AcceptMove(c)
        \/ AcceptOutputs(c)
        \/ AcceptCopy(c)

\* the approval workflow with one operation running at a time
SpecSeq == InitClients /\ [][NextSeq]_vars

NextEngine ==
    \/ \E t \in Threads :
        \/ RunBegin(t)
        \/ RunPrepare(t)
        \/ RunSpawn(t)
        \/ RunWaitExit(t)
        \/ RunWaitTimeout(t)
        \/ RunCollect(t)
        \/ RunFinally(t)
        \/ RunRmtree(t)
        \/ RunRecord(t)
        \/ CancelBegin(t)
        \/ CancelWait(t)
        \/ CancelMark(t)
    \/ \E p \in 1..MaxRuns : ChildExit(p)

\* a JobRunner after construction; no client operation runs
InitEngine == InitA /\ dirs = {} /\ InitB /\ NoPrepare /\ NoBatch /\ NoSubmit /\ NoScript /\ NoPool /\ NoScan /\ NoTable

\* the execution engine: threads running and cancelling jobs, and the child
\* processes
SpecEngine == InitEngine /\ [][NextEngine]_vars

\* a run of a job whose job_id is "a"
TimedRunBegin(t) == RunBegin(t) /\ targ'[t].id = "a"

\* a cancel_job("a")
TimedCancelBegin(t) == CancelBegin(t) /\ (targ'[t].id = "a" \/ tret'[t] = "false")

NextTimed ==
    \/ \E t \in Threads :
        \/ TimedRunBegin(t)
        \/ RunPrepare(t)
        \/ RunSpawn(t)
        \/ RunWaitExit(t)
        \/ RunWaitTimeout(t)
        \/ RunCollect(t)
        \/ RunFinally(t)
        \/ RunRecord(t)
        \/ TimedCancelBegin(t)
        \/ CancelWait(t)
        \/ CancelMark(t)
    \/ \E p \in 1..MaxRuns : ChildExit(p)
    \/ Tick

\* a JobRunner constructed with cleanup=False
InitTimed == InitEngine /\ cleanup = FALSE

\* the execution engine with the wall clock advancing, given jobs of one
\* job_id: every run, concurrent or not, writes the same registry entry;
\* with cleanup off line 319 is not reached
SpecTimed == InitTimed /\ [][NextTimed]_vars

NextPrepare ==
    \/ EnvResolveInput
    \/ EnvBuild
    \/ EnvWriteConfig
    \/ EnvChild

\* a JobRunner preparing the environment of one job
InitPrepareOnly == InitA /\ dirs = {} /\ InitB /\ cleanup = TRUE /\ InitPrepare /\ NoBatch /\ NoSubmit /\ NoScript /\ NoPool /\ NoScan /\ NoTable

\* one _prepare_job_environment call, for every declared inputs dict
SpecPrepare == InitPrepareOnly /\ [][NextPrepare]_vars

NextScript == ScriptProcess

\* a JobRunner choosing the script text of one job
InitScriptOnly == InitA /\ dirs = {} /\ InitB /\ cleanup = TRUE /\ NoPrepare /\ NoBatch /\ NoSubmit /\ InitScript /\ NoPool /\ NoScan /\ NoTable

\* one _process_custom_run_script call, for every script and disk content
SpecScript == InitScriptOnly /\ [][NextScript]_vars

NextBatch ==
    \/ \E t \in Threads :
        \/ BatchRunBegin(t)
        \/ RunPrepare(t)
        \/ RunSpawn(t)
        \/ RunWaitExit(t)
        \/ RunWaitTimeout(t)
        \/ RunCollect(t)
        \/ RunFinally(t)
        \/ BatchRunRmtree(t)
        \/ BatchRunRecord(t)
    \/ \E p \in 1..MaxRuns : ChildExit(p)
    \/ BatchReturn

\* a JobRunner after construction, and a list of jobs for run_batch
InitBatchOnly == InitA /\ dirs = {} /\ InitB /\ NoPrepare /\ InitBatch /\ NoSubmit /\ NoScript /\ NoPool /\ NoScan /\ NoTable

\* one run_batch call: the jobs run on the threads of the executor
SpecBatch == InitBatchOnly /\ [][NextBatch]_vars

NextPool ==
    \/ \E t \in Threads :
        \/ PoolTake(t)
        \/ PoolRunBegin(t)
        \/ RunPrepare(t)
        \/ RunSpawn(t)
        \/ RunWaitExit(t)
        \/ RunWaitTimeout(t)
        \/ RunCollect(t)
        \/ RunFinally(t)
        \/ PoolRunRmtree(t)
        \/ PoolRunRecord(t)
    \/ \E p \in 1..MaxRuns : ChildExit(p)

\* a JobRunner after construction and a list of jobs handed to run_batch
InitPoolOnly == InitA /\ dirs = {} /\ InitB /\ NoPrepare /\ InitBatch /\ NoSubmit /\ NoScript /\ InitPool /\ NoScan /\ NoTable

\* one run_batch call on an executor of max_workers threads
SpecPool == InitPoolOnly /\ [][NextPool]_vars

NextSubmit ==
    \/ \E t \in Threads :
        \/ SubmitRunBegin(t)
        \/ RunPrepare(t)
        \/ RunSpawn(t)
        \/ RunWaitExit(t)
        \/ RunWaitTimeout(t)
        \/ RunCollect(t)
        \/ RunFinally(t)
        \/ RunRmtree(t)
        \/ RunRecord(t)
    \/ \E p \in 1..MaxRuns : ChildExit(p)
    \/ \E p \in 1..MaxRuns : ChildWrite(p)
    \/ \E p \in 1..MaxRuns : ChildFork(p)
    \/ \E p \in 1..MaxRuns : DescendantExit(p)
    \/ \E t \in Threads : RunTimeoutKill(t)
    \/ \E t \in Threads : RunTimeoutDrain(t)
    \/ SubmitReturn

\* a JobRunner after construction, and the argument sync of submit_job
InitSubmitOnly == InitA /\ dirs = {} /\ InitB /\ NoPrepare /\ NoBatch /\ InitSubmit /\ NoScript /\ NoPool /\ NoScan /\ NoTable

\* one submit_job call, the job script writing output files
SpecSubmit == InitSubmitOnly /\ [][NextSubmit]_vars

NextScan ==
    \/ \E n \in ScanNames : ScanDeposit(n)
    \/ \E d \in inbox_dir : ScanRemove(d)
    \/ ScanRun
    \/ ScanLoopCheck
    \/ ScanDirectCheck
    \/ ScanStop

InitScanOnly == InitA /\ dirs = {} /\ InitB /\ cleanup = TRUE /\ NoPrepare /\ NoBatch /\ NoSubmit /\ NoScript /\ NoPool /\ InitScan /\ NoTable

\* one scanner, directories coming into inbox and leaving it
SpecScan == InitScanOnly /\ [][NextScan]_vars

NextTable ==
    \/ JobsListStr
    \/ \E i \in 0..(Cardinality(TableNames) - 1) : JobsListGetitem(i)

InitTableOnly == InitA /\ dirs = {} /\ InitB /\ cleanup = TRUE /\ NoPrepare /\ NoBatch /\ NoSubmit /\ NoScript /\ NoPool /\ NoScan /\ InitTable

\* one JobsList, printed and indexed
SpecTable == InitTableOnly /\ [][NextTable]_vars

NextScanLoop ==
    \/ \E n \in ScanNames : ScanDeposit(n)
    \/ \E d \in inbox_dir : ScanRemove(d)
    \/ ScanRun
    \/ ScanLoopCheck

\* the scanner is run and its loop keeps running: run() is called and is
\* not interrupted, and each sleep of line 123 ends
SpecScanLoop ==
    InitScanOnly /\ [][NextScanLoop]_vars /\ WF_vars(ScanRun) /\ WF_vars(ScanLoopCheck)

(***************************************************************************)
(* Claims about the approval workflow                                      *)
(***************************************************************************)

\* C1: after any sequence of submit_bash_job and accept_by_depositing_result
\* operations a job name exists as a directory in at most one of inbox,
\* approved and done.
C1_OneStagePerName ==
    \A j \in Jobs :
        Cardinality({k \in 1..Len(StageNames) : Present(StageNames[k], j)}) <= 1

\* C2: whenever no operation is running, every JobInfo a client holds reports
\* as its status a stage directory in which a job directory of its name
\* resides.
C2_StatusIsLocation ==
    (\A c \in Clients : pc[c] = "idle") =>
        \A c \in Clients : \A i \in 1..Len(listing[c]) :
            Present(listing[c][i].status, listing[c][i].name)

\* C3: accept_by_depositing_result called on an entry whose job directory is
\* not in inbox raises the invalid-state error (ValueError) at once and
\* leaves inbox, approved and done as they were.
C3_NotInInboxRejected ==
    [][\A c \in Clients :
        (AcceptBegin(c) /\ ~Present("inbox", arg'[c].name)) =>
            (ret'[c].out = "ValueError" /\ fs' = fs)]_vars

\* C4: when accept_by_depositing_result returns normally, a scan of the stage
\* directories finds the job name in done and in neither inbox nor approved.
C4_AcceptedIsInDone ==
    [][\A c \in Clients :
        (AcceptCopy(c) /\ ret'[c].out = "ok") =>
            LET j == ret'[c].name IN
            /\ "done" \in dirs' /\ fs'["done"][j].id # 0 /\ fs'["done"][j].config # "none"
            /\ fs'["inbox"][j].id = 0
            /\ fs'["approved"][j].id = 0]_vars

\* C4 witness: an accept has returned normally and its job is in done only.
C4_Witness ==
    \E c \in Clients :
        /\ pc[c] = "idle" /\ ret[c].op = "accept" /\ ret[c].out = "ok"
        /\ Present("done", ret[c].name)
        /\ ~Present("inbox", ret[c].name)

\* C5: a job that a scan would find when _get_current_user_jobs starts is in
\* the list it returns, whatever accept steps interleave with the scan.
C5_NeverAbsent ==
    [][\A c \in Clients :
        (ListScan(c) /\ pc'[c] = "idle") =>
            \A j \in arg[c].present : \E i \in 1..Len(listing'[c]) : listing'[c][i].name = j]_vars

\* C5 witness: a scan that started while j1 was in inbox has passed inbox
\* without finding it, because a concurrent accept has moved it, and has
\* still to read done.
C5_Witness ==
    \E c, d \in Clients :
        /\ pc[c] = "l_scan" /\ arg[c].idx = 3 /\ "j1" \in arg[c].present
        /\ \A i \in 1..Len(acc[c]) : acc[c][i].name # "j1"
        /\ pc[d] = "a_outputs" /\ arg[d].name = "j1"

\* C6: submit_bash_job of a name whose directory is in inbox raises
\* FileExistsError, at the exists() test or at mkdir, and leaves the
\* filesystem as it was; mkdir succeeds only when the directory was absent;
\* and as long as no directory of the name has been moved out of inbox, at
\* most one submission of the name has created it or returned normally, and
\* the one that created it returns normally.
C6_AlreadyExists ==
    [][\A c \in Clients :
        LET Unmoved(j) == ~Present("done", j) /\ ~Present("nested", j)
            Creators(j) == {d \in Clients :
                               \/ pc[d] \in {"s_script", "s_config"} /\ arg[d].name = j
                               \/ /\ pc[d] = "idle" /\ ret[d].op = "submit"
                                  /\ ret[d].name = j /\ ret[d].out = "ok"}
        IN
        /\ (SubmitBegin(c) /\ "user" \in dirs /\ Present("inbox", arg'[c].name)) =>
              (ret'[c].out = "FileExistsError" /\ fs' = fs)
        /\ (SubmitMkdir(c) /\ Present("inbox", arg[c].name)) =>
              (ret'[c].out = "FileExistsError" /\ pc'[c] = "idle" /\ fs' = fs)
        /\ (SubmitMkdir(c) /\ ~Present("inbox", arg[c].name)) =>
              (pc'[c] = "s_script" /\ Present("inbox", arg[c].name)')
        /\ (SubmitWriteConfig(c) /\ Unmoved(arg[c].name)) => ret'[c].out = "ok"
        /\ \A j \in Jobs : Unmoved(j) => Cardinality(Creators(j)) <= 1]_vars

\* C6 witness: two submissions of the same new name raced past the exists()
\* test; one created the directory and returned normally, the other was
\* stopped by mkdir.
C6_Witness ==
    \E c, d \in Clients :
        /\ c # d
        /\ pc[c] = "idle" /\ ret[c].op = "submit" /\ ret[c].out = "ok"
        /\ pc[d] = "idle" /\ ret[d].op = "submit" /\ ret[d].name = ret[c].name
        /\ ret[d].out = "FileExistsError" /\ ret[d].line = 857

\* C7: every job directory present in inbox holds both run.sh and
\* config.yaml.
C7_AtomicCreation ==
    \A j \in Jobs :
        Present("inbox", j) => (fs["inbox"][j].script # "none" /\ fs["inbox"][j].config # "none")

\* C8: a job directory that is in done stays in done, and one that is in
\* approved never goes to inbox: no step moves a directory to an earlier
\* stage.
C8_NoBackwardMove ==
    [][\A j \in Jobs :
        /\ Present("done", j) => fs'["done"][j].id = fs["done"][j].id
        /\ Present("nested", j) => fs'["nested"][j].id = fs["nested"][j].id
        /\ Present("approved", j) =>
              (fs'["inbox"][j].id # fs["approved"][j].id)
        /\ Present("inbox", j)' =>
              (fs'["inbox"][j].id \notin {fs[s][j].id : s \in {"approved", "done", "nested"}})]_vars

\* C8 witness: a second accept on a handle already in done was refused and
\* the job is still in done.
C8_Witness ==
    \E c \in Clients :
        /\ ret[c].op = "accept" /\ ret[c].out = "ValueError"
        /\ Present("done", ret[c].name)

\* C9: when accept_by_depositing_result raises at the copy of the result
\* file, after the move, the job directory is done/<name>, nothing of that
\* name is in inbox, and the outputs directory is empty or absent.
C9_PartialFailure ==
    [][\A c \in Clients :
        (AcceptCopy(c) /\ ret'[c].out # "ok") =>
            LET j == arg[c].name IN
            /\ fs'["done"][j].id # 0
            /\ fs'["inbox"][j].id = 0
            /\ fs'["nested"][j].id = 0
            /\ fs'["done"][j].outputs \in {"nodir", "empty"}]_vars

(***************************************************************************)
(* Claims about the execution engine                                       *)
(***************************************************************************)

\* C10: once jobs[id].status is Completed, Failed or Cancelled, no step of
\* run_job, run_job_async or cancel_job changes it to another value.
C10_TerminalIsFinal ==
    [][\A i \in JobIds :
        jobs[i].status \in Terminal => jobs'[i].status = jobs[i].status]_vars

ExitedByItself(t) == targ[t].op = "run" /\ targ[t].p # 0 /\ targ[t].exit_code >= 0

TimedOut(t) == targ[t].op = "run" /\ targ[t].p # 0 /\ targ[t].exit_code = -1

\* C13: when the child process is still running at the timeout, the result
\* the run records has status Failed, exit code -1 and the timeout error in
\* its error field.
C13_TimeoutRecorded ==
    [][\A t \in Threads :
        (RunRecord(t) /\ TimedOut(t)) =>
            /\ jobs'[targ[t].id].status = "failed"
            /\ jobs'[targ[t].id].exit_code = -1
            /\ jobs'[targ[t].id].error = "timeout"]_vars

\* the record of job i is the result of a run whose child was ended by a
\* signal; only cancel_job sends signals (lines 356 and 360), and it sends
\* them to a child that is running
KilledByCancel(i) == jobs[i].status # "none" /\ jobs[i].exit_code \in {-15, -9}

\* C14: when cancel_job(id) was called while a child process for id was
\* running, the status recorded for id once the run and the cancel have
\* returned is Cancelled, not Failed.
C14_CancelledNotFailed ==
    (\A t \in Threads : tpc[t] = "idle") =>
        \A i \in JobIds : KilledByCancel(i) => jobs[i].status = "cancelled"

\* a child process started by a run of job i has not ended
ChildRunning(i) ==
    \E t \in Threads :
        /\ targ[t].op = "run" /\ targ[t].id = i /\ targ[t].p # 0
        /\ proc[targ[t].p].state = "running"

\* C15: cancel_job(id) goes on to return true only if a child process of id
\* is running when it is called; when none is running it returns false and
\* changes neither the registry nor the running-process table.
C15_CancelOnlyRunning ==
    [][\A t \in Threads, i \in JobIds :
        CancelCall(t, i) =>
            /\ tpc'[t] = "c_wait" => ChildRunning(i)
            /\ ~ChildRunning(i) =>
                    /\ tret'[t] = "false"
                    /\ jobs' = jobs /\ running' = running]_vars

\* the threads inside a run of job i that has started its child process
Executing(i) == {t \in Threads : targ[t].op = "run" /\ targ[t].id = i /\ targ[t].p # 0}

\* C16: at most one execution is in flight per job identifier: a run that
\* begins while another run of the same identifier is in flight starts no
\* child process.
C16_OneExecutionPerId == \A i \in JobIds : Cardinality(Executing(i)) <= 1

\* C17: workspaces are write-once: a preparation that finds the workspace
\* directory of its job already there fails, so that of two runs of one
\* job identifier only one prepares the workspace.
C17_WorkspaceWriteOnce ==
    [][\A t \in Threads :
        (RunPrepare(t) /\ ws[targ[t].id]) =>
            /\ tpc'[t] = "r_finally"
            /\ result'[t].status = "failed"]_vars

\* an input variable name of the job is, in upper case, a reserved name
Collides == \E k \in 1..Len(envIn) : Upper(envIn[k].name) \in {CODE_DIR, OUTPUT_DIR}

\* C18: when a declared input variable name is, after case normalization,
\* CODE_DIR or OUTPUT_DIR, the preparation fails and job_env_vars is never
\* built, so no child is started; in a built job_env_vars the reserved
\* bindings are the code directory and the outputs directory.
C18_ReservedNotOverridden ==
    EnvBuilt =>
        /\ ~Collides
        /\ job_env_vars[CODE_DIR] = CodeDirPath
        /\ job_env_vars[OUTPUT_DIR] = OutputsDirPath

\* the threads inside a run of job i that has prepared the workspace
Prepared(i) ==
    {t \in Threads : targ[t].op = "run" /\ targ[t].id = i /\ tpc[t] # "r_prepare"}

\* C19: with cleanup enabled the workspace of a job is deleted only after
\* the result has been recorded: while a run of the job is past the
\* preparation and the registry holds no result of the job, the workspace
\* directory exists.
C19_CleanupAfterRecord ==
    cleanup =>
        \A i \in JobIds :
            (Prepared(i) # {} /\ jobs[i].status = "none") => ws[i]

\* C20: run_batch on a list of n jobs returns a list of n results whose
\* i-th result has the job identifier of the i-th job, whatever the order
\* in which the jobs end.
C20_BatchOrder ==
    bret.state # "none" =>
        /\ bret.state = "returned"
        /\ Len(bret.results) = Len(batch)
        /\ \A k \in 1..Len(batch) : bret.results[k].job_id = batch[k]

\* the threads inside run_job or run_job_async of job i
InFlight(i) == {t \in Threads : targ[t].op = "run" /\ targ[t].id = i}

\* C21: from the submission of a job until it reaches a terminal status,
\* get_job_status(id) returns a record whose status is Pending or Running.
C21_PendingOrRunning ==
    \A i \in JobIds :
        InFlight(i) # {} => get_job_status(i).status \in {"pending", "running"}

\* the job of the submit_job call has a terminal record in the registry
SubmittedIsTerminal == \E i \in JobIds : jobs[i].status \in Terminal

\* C22: submit_job with sync=False returns before the job has reached a
\* terminal status; with sync=True it returns only after the job has
\* reached a terminal status.
C22_AsyncReturnsAtOnce ==
    [][SubmitReturn => (sync <=> SubmittedIsTerminal)]_vars

\* the preparation of the run of thread t has failed (lines 112-113)
PrepareFailed(t) == targ[t].op = "run" /\ ~targ[t].codeOk /\ tpc[t] # "r_prepare"

\* C23: when the workspace preparation of a run fails, the run starts no
\* child process, its result is Failed with the error message, and that is
\* what it records for the job.
C23_PrepareFailureRecorded ==
    [][\A t \in Threads :
        /\ (RunPrepare(t) /\ ~targ[t].codeOk) =>
                /\ tpc'[t] = "r_finally"
                /\ result'[t].status = "failed" /\ result'[t].error = "exception"
        /\ PrepareFailed(t) => ~RunSpawn(t)
        /\ (RunRecord(t) /\ PrepareFailed(t)) =>
                /\ targ[t].p = 0
                /\ jobs'[targ[t].id].status = "failed"
                /\ jobs'[targ[t].id].error = "exception"]_vars

\* C23 witness: a run whose preparation failed is about to record its
\* result, and no child process was ever started
C23_Witness ==
    \E t \in Threads :
        /\ tpc[t] = "r_record" /\ PrepareFailed(t)
        /\ \A p \in 1..MaxRuns : proc[p] = NoProc

\* C24: every JobResult in the registry whose status is Failed has a
\* populated error field, whatever the failure: preparation error, timeout
\* or non-zero exit.
C24_FailedHasError ==
    \A i \in JobIds : jobs[i].status = "failed" => jobs[i].error # "none"

\* C25: after the child process of a run has executed, whatever its exit
\* code, the artifacts of the result the run returns are exactly the
\* regular files under the outputs directory of the job, and each listed
\* file exists when the result is returned.
C25_ArtifactsExist ==
    [][\A t \in Threads :
        (RunRecord(t) /\ targ[t].p # 0) =>
            result[t].artifacts = Artifacts(targ[t].id)]_vars

\* the child of the run of thread t started a process that is still alive
OrphanLeft(t) == targ[t].p # 0 /\ desc[targ[t].p] \in {"piped", "detached"}

\* C26: when a run whose child did not exit by itself within the timeout
\* returns (it stores its Failed result), no process the child started is
\* still running.
C26_TimeoutKillsDescendants ==
    [][\A t \in Threads :
        (RunRecord(t) /\ TimedOut(t)) => ~OrphanLeft(t)]_vars

\* the resolved local path of the k-th declared input
ResolvedInput(k) == ResolveSyftUrl(envIn[k].url, "inputs")

\* the config record holds the resolved path of the k-th declared input:
\* under its name in the input mapping, or under the upper-case name in the
\* environment
ConfigHasResolved(k) ==
    \/ /\ envIn[k].name \in DOMAIN config_data.inputs
       /\ config_data.inputs[envIn[k].name] = ResolvedInput(k)
    \/ /\ Upper(envIn[k].name) \in DOMAIN config_data.environment
       /\ config_data.environment[Upper(envIn[k].name)] = ResolvedInput(k)

\* C27: once the environment of the child is assembled, config.yaml holds
\* the resolved local path of every declared input, and its environment
\* section is exactly the set of bindings the runner adds to the child's
\* environment.
C27_ConfigReproducesExecution ==
    EnvCopied =>
        /\ \A k \in 1..Len(envIn) : ConfigHasResolved(k)
        /\ config_data.environment = env_vars

\* C28: once the environment of the child is assembled, it holds for every
\* declared input key a variable of exactly that name, bound to the resolved
\* local path of the input.
C28_InputKeyInChildEnv ==
    EnvCopied =>
        \A k \in 1..Len(envIn) :
            /\ envIn[k].name \in DOMAIN env
            /\ env[envIn[k].name] = ResolvedInput(k)

\* the file the declared script names: the path as given when it is a
\* regular file, else the same relative path under the code directory
NamedFile(str) ==
    IF IsFile(AsGiven(str)) THEN AsGiven(str)
    ELSE [root |-> "code", rel |-> str]

\* the declared script has no newline and resolves to an existing file
ResolvesToFile(str) ==
    /\ ~HasNewline(str)
    /\ \/ IsFile(AsGiven(str))
       \/ ~IsAbsolute(str) /\ codeDir /\ IsFile([root |-> "code", rel |-> str])

\* C29: the script text is the content of the file the declared script
\* names exactly when the declared script has no newline and resolves to an
\* existing file, as given or relative to the code directory; in every
\* other case it is the declared text itself.
C29_PathIffExistingFile ==
    script_content # NoContent =>
        script_content = IF ResolvesToFile(run_script)
                         THEN FileText(NamedFile(run_script))
                         ELSE Literal(run_script)

\* the job directories of a stage whose config.yaml exists and loads
ReadableIn(stage) ==
    IF stage \in dirs
    THEN {j \in Jobs : fs[stage][j].id # 0 /\ fs[stage][j].config # "none"}
    ELSE {}

\* C30: the scan of a stage directory adds to the list exactly one item for
\* each job directory of the stage that has a readable config.yaml, with
\* the stage as its status; a directory without a readable config.yaml adds
\* nothing, and the listing ends without raising.
C30_ListingSkipsUnreadable ==
    [][\A c \in Clients :
        ListScan(c) =>
            LET stage == StageNames[arg[c].idx]
                found == IF pc'[c] = "idle" THEN listing'[c] ELSE acc'[c]
                new == SubSeq(found, Len(acc[c]) + 1, Len(found))
            IN /\ Len(found) >= Len(acc[c])
               /\ SubSeq(found, 1, Len(acc[c])) = acc[c]
               /\ Len(new) = Cardinality(ReadableIn(stage))
               /\ \A j \in ReadableIn(stage) :
                    \E i \in 1..Len(new) : new[i] = JobInfo(fs[stage][j].config, stage)
               /\ pc'[c] = "idle" => ret'[c].out = "ok"]_vars

\* C30 witness: a listing has returned normally with an item of status done
\* while the job directory in inbox, which has no config.yaml yet, is not
\* in the list.
C30_Witness ==
    \E c \in Clients :
        /\ pc[c] = "idle" /\ ret[c].op = "list" /\ ret[c].out = "ok"
        /\ \E i \in 1..Len(listing[c]) : listing[c][i].status = "done"
        /\ \A i \in 1..Len(listing[c]) : listing[c][i].status # "inbox"
        /\ Present("inbox", "j1") /\ fs["inbox"]["j1"].config = "none"

\* the three stage directories of the participant
StageDirs == {"inbox", "approved", "done"}

\* the scan step of client c reads a stage directory that exists
ReadsStage(c) == ListScan(c) /\ StageNames[arg[c].idx] \in dirs

\* C31: whenever a listing reads a stage directory, all three stage
\* directories exist; and a mkdir of _ensure_job_directories removes no
\* directory and leaves every job directory as it is.
C31_StagesExistBeforeUse ==
    [][\A c \in Clients :
        /\ ReadsStage(c) => StageDirs \subseteq dirs
        /\ EnsureStep(c) => (dirs \subseteq dirs' /\ fs' = fs)]_vars

\* C32: accept_by_depositing_result called on an inbox entry with a result
\* path that does not exist raises FileNotFoundError, moves no directory,
\* creates none, and leaves the entry's status and location as they were.
C32_MissingResultRejected ==
    [][\A c \in Clients :
        (/\ AcceptBegin(c)
         /\ arg'[c].res = "missing"
         /\ listing[c][arg'[c].idx].status = "inbox") =>
            /\ ret'[c].out = "FileNotFoundError"
            /\ pc'[c] = "idle"
            /\ fs' = fs
            /\ dirs' = dirs
            /\ listing' = listing]_vars

\* C32 witness: an accept of an inbox entry has raised FileNotFoundError at
\* the result file test; the entry still has status inbox and the job
\* directory is in inbox.
C32_Witness ==
    \E c \in Clients :
        /\ pc[c] = "idle" /\ ret[c].op = "accept"
        /\ ret[c].out = "FileNotFoundError" /\ ret[c].line = 47
        /\ arg[c].res = "missing"
        /\ listing[c][arg[c].idx].status = "inbox"
        /\ listing[c][arg[c].idx].loc = "inbox"
        /\ Present("inbox", ret[c].name)

\* the threads that execute a job: between the start of _run_job_sync and
\* its return
Busy == {t \in Threads : targ[t].op = "run"}

\* every job of the batch has a future with a terminal status
AllTerminal == \A k \in 1..Len(batch) : fut[k] \in Terminal

\* no thread of the pool and no child process can take a step
PoolQuiet == ~ENABLED NextPool

\* C33: at no time do more than max_workers jobs of a batch execute, and
\* every job of the batch reaches a terminal status: every step of the pool
\* advances a thread, a child or the queue, so a behaviour in which the
\* threads keep being scheduled ends in a state without a further step, and
\* in such a state every job of the batch has a terminal status.
C33_BoundedPoolTerminates ==
    /\ Cardinality(Busy) <= max_workers
    /\ PoolQuiet => AllTerminal

\* the threads whose run of job i has started a child process and has not
\* yet reaped it
Unreaped(i) == {t \in Threads : targ[t].op = "run" /\ targ[t].id = i /\ tpc[t] = "r_wait"}

\* C34: self._running_processes has an entry for a job id exactly while a
\* child process started for that id has not been reaped, and the entry is
\* that child: cancel_job finds a child that still runs, and finds nothing
\* once the run has reaped it.
C34_TableTracksChildren ==
    \A i \in JobIds :
        /\ running[i] # 0 <=> Unreaped(i) # {}
        /\ \A t \in Unreaped(i) : running[i] = targ[t].p

\* the items of a list that carry the name j
ItemsOf(l, j) == {i \in 1..Len(l) : l[i].name = j}

\* C35: the list a listing returns does not hold the same job twice with
\* two different stages, whatever accept steps interleave with the scan;
\* stated for a job whose name is in one stage directory only when the
\* listing returns.
C35_OneStagePerListing ==
    [][\A c \in Clients :
        (ListScan(c) /\ pc'[c] = "idle") =>
            \A j \in Jobs :
                Cardinality({st \in StageDirs : Present(st, j)}) <= 1 =>
                    \A i, k \in ItemsOf(listing'[c], j) :
                        listing'[c][i].status = listing'[c][k].status]_vars

\* client c takes a step of an accept while done/<name> is the directory
\* of an earlier job: the move that finds it there, or a later step of an
\* accept whose own job was moved to done/<name>/<name>
AcceptBesideDone(c) ==
    \/ AcceptMove(c) /\ Present("done", arg[c].name)
    \/ (AcceptOutputs(c) \/ AcceptCopy(c)) /\ Present("nested", arg[c].name)

\* C36: when done already holds a directory of the accepted job's name, no
\* step of accept_by_depositing_result changes the script, the config
\* record or the outputs of that directory.
C36_DoneJobUntouched ==
    [][\A c \in Clients :
        AcceptBesideDone(c) =>
            fs'["done"][arg[c].name] = fs["done"][arg[c].name]]_vars

(***************************************************************************)
(* Claims about the inbox scanner                                          *)
(***************************************************************************)

\* the directories a step of check_for_new_jobs announces
NewlyAnnounced ==
    IF Len(reported') > Len(reported) THEN reported'[Len(reported')] ELSE {}

\* C37: the scanner announces a directory at most once while it stays in
\* inbox: after every check_for_new_jobs, known_jobs is the set of names of
\* the directories in inbox at that scan; a directory present at the scan
\* before is not announced; no directory is announced twice; a directory
\* that was in inbox when run() read it at line 113 is not announced.
C37_ReportedAtMostOnce ==
    [][(ScanLoopCheck \/ ScanDirectCheck) =>
          /\ known_jobs' = JobsInInbox
          /\ NewlyAnnounced \cap last_scan = {}
          /\ NewlyAnnounced \cap Announced(reported) = {}
          /\ NewlyAnnounced \cap existing = {}]_vars

\* a directory announced by an earlier scan was still in inbox at a later
\* scan that announced another one, and a directory run() found is still
\* in inbox
C37_Witness ==
    /\ spc = "loop"
    /\ Len(reported) = 2
    /\ reported[1] \cap last_scan # {}
    /\ existing \cap inbox_dir # {}

\* C38: every directory created in inbox after the scanner was constructed
\* is announced by the scanner or leaves inbox, when run() is called and its
\* loop keeps running.
C38_DepositedIsReported ==
    \A n \in ScanNames : \A i \in 1..MaxDirs :
        (Dir(n, i) \in inbox_dir) ~>
            (Dir(n, i) \in Announced(reported) \/ Dir(n, i) \notin inbox_dir)

(***************************************************************************)
(* Claims about the jobs table                                             *)
(***************************************************************************)

\* C39: the row of the printed jobs table that shows index i shows the name
\* and the status of the job JobsList[i] returns.
C39_RowIndexIsListIndex ==
    (table # <<>> /\ index >= 0) =>
        \A r \in 1..Len(table) :
            table[r].i = index =>
                (table[r].name = got.name /\ table[r].status = got.status)

====
